---- MODULE Spec2Model ----
(***************************************************************************)
(* MEM::memoryPool<poolSize, maxHandles> (MemoryManagement/memory_pool.hpp) *)
(* as a state machine: the block list threaded through the arena, the      *)
(* handle table, the free-handle stack and the arena bytes.  Offsets are   *)
(* byte offsets from the start of `pool`, which is alignas(max_align_t).   *)
(* The containers of the same directory follow it: MEM::ringBuffer<T>       *)
(* (ring_buffer.hpp), MEM::fifoQueue<T, queueSize> and MEM::lifoQueue<T,     *)
(* queueSize> (queue.hpp) and MEM::singlyLinkedList (linked_list.hpp).       *)
(***************************************************************************)
EXTENDS Integers, Sequences, FiniteSets, TLC

\* ---------------------------------------------------------------- bounds
\* Template arguments of the instantiations that are explored: the arena is
\* at most PoolWords machine words long.
PoolWords == 33
\* The handle-table size of the instantiations explored by arbitrary callers.
MaxHandles == 2
\* Number of threads that call the pool concurrently.
NumThreads == 2
\* Number of distinct fill patterns a caller writes through getPointer, and
\* the number of such writes in one run.
NumPatterns == 1
MaxWrites == 1
\* Number of pool calls explored after the first caller write.
MaxCalls == 3
\* Elements are the values 1..NumValues; 0 is a zeroed or never written slot.
NumValues == 2
\* Largest elementCount of the ring buffers explored, and the longest array
\* handed to its array write.
MaxElementCount == 3
MaxDataCount == 2
\* Template argument queueSize of the queues explored.
QueueSize == 3
\* Number of sllNode objects the caller of the linked list owns.
MaxNodes == 4

\* ------------------------------------------------------ platform constants
\* alignof(std::max_align_t) and sizeof(memoryBlock) on the x86-64 ABI.
alignment == 16
sizeofMemoryBlock == 40
\* sizeof(size_t): the arena contents are tracked word by word.
wordSize == 8

\* The arena sizes explored: the two largest of at most PoolWords words, so
\* one that is a multiple of the alignment and one that is not.
PoolSizes == {(PoolWords - 1) * wordSize, PoolWords * wordSize}

NULL == -1

\* (x + alignof(max_align_t) - 1) & ~(alignof(max_align_t) - 1)
AlignUp(x) == (x + alignment - 1) - ((x + alignment - 1) % alignment)

\* x & ~(alignof(max_align_t) - 1)
AlignDown(x) == x - (x % alignment)

memoryBlockAlignedSize == AlignUp(sizeofMemoryBlock)

minimalBlockSize == memoryBlockAlignedSize + alignment

\* Words of a header that its five fields occupy: size, is_free, next,
\* prev, handle.  The sixth word of the aligned header is padding.
HeaderFieldWords == 0..((sizeofMemoryBlock \div wordSize) - 1)

WordOf(offset) == offset \div wordSize

Patterns == 1..NumPatterns

\* ------------------------------------------------------------------ state
VARIABLES
  poolSize,        \* template argument: the arena size in bytes
  maxHandles,      \* template argument: the size of the handle table
  head,            \* offset of the first block header
  blk,             \* header offset |-> [size, is_free, next, prev, handle]
  handleTable,     \* handle |-> header offset or NULL
  freeHandles,     \* the array behind the free-handle stack
  freeHandleCount, \* number of entries of freeHandles in use
  pool,            \* arena words, word w at pool[w + 1]: 0 = not caller data,
                   \* p \in Patterns = caller data
  writes,          \* number of caller writes so far
  calls,           \* number of pool calls since the first caller write
  crashed,         \* the process died on undefined behaviour
  lastOp,          \* the last call and what it returned
  live,            \* handles returned by a successful alloc and not freed since
  released,        \* handles freed successfully and not reissued since
  pool_mutex,      \* the thread that holds the pool mutex, or 0
  pc,              \* thread |-> where it is in its current pool call
  history,         \* the calls of a scripted caller so far, with their results
  ringBuffer,      \* the data members of a MEM::ringBuffer<T>
  fifoQueue,       \* the data members of a MEM::fifoQueue<T, QueueSize>
  lifoQueue,       \* the data members of a MEM::lifoQueue<T, QueueSize>
  singlyLinkedList \* the data members of a MEM::singlyLinkedList and the
                   \* m_next of the caller's nodes

vars == <<poolSize, maxHandles, head, blk, handleTable, freeHandles,
          freeHandleCount, pool, writes, calls, crashed, lastOp, live,
          released, pool_mutex, pc, history, ringBuffer, fifoQueue, lifoQueue,
          singlyLinkedList>>

containerVars == <<ringBuffer, fifoQueue, lifoQueue, singlyLinkedList>>

Handles == 0..(maxHandles - 1)

Threads == 1..NumThreads

threadVars == <<pool_mutex, pc>>

\* A pool call is made while the process runs and the run is within bounds.
Call ==
  /\ ~crashed
  /\ calls < MaxCalls
  /\ calls' = IF writes > 0 THEN calls + 1 ELSE calls
  /\ UNCHANGED <<writes, poolSize, maxHandles>>

poolVars == <<head, blk, handleTable, freeHandles, freeHandleCount>>

\* A call as its caller sees it: the operation, its argument, the code it
\* returned and, for alloc, the handle written to outHandle.
Op(o, a, r, h) == [op |-> o, arg |-> a, ret |-> r, out |-> h]

Block(sz, fr, nx, pv, h) ==
  [size |-> sz, is_free |-> fr, next |-> nx, prev |-> pv, handle |-> h]

\* Storing all five fields of a header at offset b.
WriteHeader(mem, b) ==
  [k \in DOMAIN mem |->
     IF ((k - 1) - WordOf(b)) \in HeaderFieldWords THEN 0 ELSE mem[k]]

\* The blocks reachable from b by next, in list order.
RECURSIVE ListFrom(_, _)
ListFrom(bl, b) ==
  IF b = NULL THEN <<>> ELSE <<b>> \o ListFrom(bl, bl[b].next)

\* Request sizes tried by callers: zero, one byte (rounded up to one alignment
\* unit), one byte more than a unit (rounded up to two), and the whole arena.
AllocSizes == {0, 1, alignment + 1, poolSize}

\* The state the constructor of memoryPool<ps, mh> leaves.
Construct(ps, mh) ==
  /\ poolSize = ps
  /\ maxHandles = mh
  /\ head = 0
  /\ blk = (0 :> Block(ps - memoryBlockAlignedSize, TRUE, NULL, NULL, 0))
  /\ freeHandleCount = mh
  /\ freeHandles = [i \in 0..(mh - 1) |-> mh - i - 1]
  /\ handleTable = [i \in 0..(mh - 1) |-> NULL]
  /\ pool = [k \in 1..WordOf(ps) |-> 0]
  /\ writes = 0
  /\ calls = 0
  /\ crashed = FALSE
  /\ lastOp = Op("init", 0, "SUCCESS", NULL)
  /\ live = {}
  /\ released = {}
  /\ pool_mutex = 0
  /\ pc = [t \in Threads |-> "idle"]
  /\ history = <<>>

\* ringBuffer<T>(elementCount, overWrite): the array is allocated and
\* reset() zeroes it and both indices.  m_readPointer and m_writePointer are
\* &m_itemArray[m_readIndex] and &m_itemArray[m_writeIndex] after every
\* operation and are read through the indices here.
RingBufferNew(elementCount, overWrite) ==
  [m_itemArray |-> [i \in 0..(elementCount - 1) |-> 0],
   m_elementCount |-> elementCount,
   m_elementsWritten |-> 0,
   m_readIndex |-> 0,
   m_writeIndex |-> 0,
   m_overwriteSetting |-> overWrite]

\* queueBase(): m_head(0), m_tail(0), m_currentSize(0); m_data is left as
\* it is, and no operation reads a slot before writing it.
QueueNew ==
  [m_data |-> [i \in 0..(QueueSize - 1) |-> 0],
   m_head |-> 0,
   m_tail |-> 0,
   m_currentSize |-> 0]

\* The nodes of the caller, each constructed by sllNode(data) with m_next
\* nullptr, and singlyLinkedList(): no head, no tail, count 0, not circular.
Nodes == 1..MaxNodes

ListNew ==
  [m_head |-> NULL,
   m_tail |-> NULL,
   m_count |-> 0,
   m_circular |-> FALSE,
   m_next |-> [n \in Nodes |-> NULL]]

\* The containers as their constructors leave them.
ConstructContainers(elementCount, overWrite) ==
  /\ ringBuffer = RingBufferNew(elementCount, overWrite)
  /\ fifoQueue = QueueNew
  /\ lifoQueue = QueueNew
  /\ singlyLinkedList = ListNew

Init ==
  /\ \E ps \in PoolSizes : Construct(ps, MaxHandles)
  /\ ConstructContainers(1, "RINGBUFFER_NO_OVERWRITE")

\* ------------------------------------------------------------------ alloc
\* The size check also rejects a request for the whole arena payload.
AllocInvalidSizeOffByOne(size) ==
  size = 0 \/ size >= poolSize - memoryBlockAlignedSize

\* size == 0 || size > poolSize - memoryBlockAlignedSize
AllocInvalidSize(size) ==
  size = 0 \/ size > poolSize - memoryBlockAlignedSize

\* A block one byte too small passes for large enough.
FitsOffByOne(bl, b, size) == bl[b].is_free /\ bl[b].size > size

\* current->is_free && current->size >= size
Fits(bl, b, size) == bl[b].is_free /\ bl[b].size >= size

\* The scan takes the last block that is free and large enough.
RECURSIVE FirstFitTakesLast(_, _, _)
FirstFitTakesLast(bl, b, size) ==
  IF b = NULL THEN NULL
  ELSE IF FirstFitTakesLast(bl, bl[b].next, size) # NULL
       THEN FirstFitTakesLast(bl, bl[b].next, size)
  ELSE IF Fits(bl, b, size) THEN b
  ELSE NULL

\* The scan of alloc: the first block from b on that is free and large enough.
RECURSIVE FirstFit(_, _, _)
FirstFit(bl, b, size) ==
  IF b = NULL THEN NULL
  ELSE IF Fits(bl, b, size) THEN b
  ELSE FirstFit(bl, bl[b].next, size)

\* A block that leaves exactly a minimal block behind is not split.
CanSplitOffByOne(bl, current, size) ==
  bl[current].size > (size + memoryBlockAlignedSize) + minimalBlockSize

\* current->size >= totalAllocSize + minimalBlockSize
CanSplit(bl, current, size) ==
  bl[current].size >= (size + memoryBlockAlignedSize) + minimalBlockSize

\* The split of alloc: a new free block behind the first `size` payload bytes.
SplitBlock(bl, current, size) ==
  LET totalAllocSize == size + memoryBlockAlignedSize
      new_block == current + totalAllocSize
      nx == bl[current].next
      added == (new_block :>
                  Block(bl[current].size - totalAllocSize, TRUE, nx, current, 0))
               @@ bl
      relinked == IF nx # NULL THEN [added EXCEPT ![nx].prev = new_block]
                  ELSE added
  IN [relinked EXCEPT ![current].next = new_block, ![current].size = size]

\* The handle table is tested before the list is scanned.
AllocReturnHandleFirst(size) ==
  IF AllocInvalidSize(size) THEN "INVALID_SIZE"
  ELSE IF freeHandleCount = 0 THEN "HANDLE_TABLE_FULL"
  ELSE IF FirstFit(blk, head, AlignUp(size)) = NULL THEN "ALLOCATION_FAILED"
  ELSE "SUCCESS"

\* The code alloc(size) returns: the order of its checks.
AllocReturn(size) ==
  IF AllocInvalidSize(size) THEN "INVALID_SIZE"
  ELSE IF FirstFit(blk, head, AlignUp(size)) = NULL THEN "ALLOCATION_FAILED"
  ELSE IF freeHandleCount = 0 THEN "HANDLE_TABLE_FULL"
  ELSE "SUCCESS"

\* alloc hands out the block without clearing its is_free flag.
AllocResultLeavesBlockFree(size) ==
  LET ret == AllocReturn(size)
      same == [ret |-> ret, out |-> NULL, blk |-> blk,
               handleTable |-> handleTable,
               freeHandleCount |-> freeHandleCount, pool |-> pool]
  IN
  IF ret \in {"INVALID_SIZE", "ALLOCATION_FAILED"} THEN same
  ELSE
    LET asize == AlignUp(size)
        current == FirstFit(blk, head, asize)
        split == CanSplit(blk, current, asize)
        bl1 == IF split THEN SplitBlock(blk, current, asize) ELSE blk
        mem1 == IF split
                THEN WriteHeader(pool, current + asize + memoryBlockAlignedSize)
                ELSE pool
        bl2 == bl1
    IN
    IF ret = "HANDLE_TABLE_FULL"
    THEN [same EXCEPT !.blk = bl2, !.pool = mem1]
    ELSE
      LET handle == freeHandles[freeHandleCount - 1]
      IN [ret |-> ret, out |-> handle,
          blk |-> [bl2 EXCEPT ![current].handle = handle],
          handleTable |-> [handleTable EXCEPT ![handle] = current],
          freeHandleCount |-> freeHandleCount - 1,
          pool |-> mem1]

\* What alloc(size) returns and the state it leaves.
AllocResult(size) ==
  LET ret == AllocReturn(size)
      same == [ret |-> ret, out |-> NULL, blk |-> blk,
               handleTable |-> handleTable,
               freeHandleCount |-> freeHandleCount, pool |-> pool]
  IN
  IF ret \in {"INVALID_SIZE", "ALLOCATION_FAILED"} THEN same
  ELSE
    LET asize == AlignUp(size)
        current == FirstFit(blk, head, asize)
        split == CanSplit(blk, current, asize)
        bl1 == IF split THEN SplitBlock(blk, current, asize) ELSE blk
        mem1 == IF split
                THEN WriteHeader(pool, current + asize + memoryBlockAlignedSize)
                ELSE pool
        bl2 == [bl1 EXCEPT ![current].is_free = FALSE]
    IN
    IF ret = "HANDLE_TABLE_FULL"
    THEN [same EXCEPT !.blk = bl2, !.pool = mem1]
    ELSE
      LET handle == freeHandles[freeHandleCount - 1]
      IN [ret |-> ret, out |-> handle,
          blk |-> [bl2 EXCEPT ![current].handle = handle],
          handleTable |-> [handleTable EXCEPT ![handle] = current],
          freeHandleCount |-> freeHandleCount - 1,
          pool |-> mem1]

alloc(size) ==
  /\ Call
  /\ \E r \in {AllocResult(size)} :
     /\ blk' = r.blk
     /\ handleTable' = r.handleTable
     /\ freeHandleCount' = r.freeHandleCount
     /\ pool' = r.pool
     /\ lastOp' = Op("alloc", size, r.ret, r.out)
     /\ live' = IF r.ret = "SUCCESS" THEN live \cup {r.out} ELSE live
     /\ released' = IF r.ret = "SUCCESS" THEN released \ {r.out} ELSE released
  /\ UNCHANGED <<head, freeHandles, crashed>>

\* ------------------------------------------------------------------- free
\* The range check also rejects the last handle of the table.
FreeInvalidHandleOffByOne(handle) ==
  handle >= maxHandles - 1 \/ handleTable[handle] = NULL

\* handle >= maxHandles || handleTable[handle] == nullptr
FreeInvalidHandle(handle) ==
  handle >= maxHandles \/ handleTable[handle] = NULL

Without(bl, b) == [x \in (DOMAIN bl) \ {b} |-> bl[x]]

\* Merges with the next block and counts its payload only.
CoalesceNextDropsHeader(bl, block) ==
  LET nx == bl[block].next IN
  IF nx # NULL /\ bl[nx].is_free
  THEN LET nn == bl[nx].next
           merged == [bl EXCEPT
                        ![block].size = @ + bl[nx].size,
                        ![block].next = nn]
           relinked == IF nn # NULL THEN [merged EXCEPT ![nn].prev = block]
                       ELSE merged
       IN Without(relinked, nx)
  ELSE bl

\* "Coalesce with next block if it's free"; the absorbed header is unlinked.
CoalesceNext(bl, block) ==
  LET nx == bl[block].next IN
  IF nx # NULL /\ bl[nx].is_free
  THEN LET nn == bl[nx].next
           merged == [bl EXCEPT
                        ![block].size = @ + memoryBlockAlignedSize + bl[nx].size,
                        ![block].next = nn]
           relinked == IF nn # NULL THEN [merged EXCEPT ![nn].prev = block]
                       ELSE merged
       IN Without(relinked, nx)
  ELSE bl

\* Leaves a free previous block alone once the next block was merged.
CoalescePrevUnlessGrown(bl, block) ==
  LET pv == bl[block].prev IN
  IF pv # NULL /\ bl[pv].is_free /\ bl[block].size <= 2 * alignment
  THEN LET nx == bl[block].next
           merged == [bl EXCEPT
                        ![pv].size = @ + memoryBlockAlignedSize + bl[block].size,
                        ![pv].next = nx]
           relinked == IF nx # NULL THEN [merged EXCEPT ![nx].prev = pv]
                       ELSE merged
       IN Without(relinked, block)
  ELSE bl

\* "Coalesce with previous block if it's free"; block itself is unlinked.
CoalescePrev(bl, block) ==
  LET pv == bl[block].prev IN
  IF pv # NULL /\ bl[pv].is_free
  THEN LET nx == bl[block].next
           merged == [bl EXCEPT
                        ![pv].size = @ + memoryBlockAlignedSize + bl[block].size,
                        ![pv].next = nx]
           relinked == IF nx # NULL THEN [merged EXCEPT ![nx].prev = pv]
                       ELSE merged
       IN Without(relinked, block)
  ELSE bl

\* free empties the whole handle table, not only the slot of its handle.
FreeResultEmptiesTable(handle) ==
  LET same == [ret |-> "SUCCESS", overflow |-> FALSE, blk |-> blk,
               handleTable |-> handleTable, freeHandles |-> freeHandles,
               freeHandleCount |-> freeHandleCount]
  IN
  IF FreeInvalidHandle(handle) THEN [same EXCEPT !.ret = "INVALID_HANDLE"]
  ELSE
    LET block == handleTable[handle] IN
    IF blk[block].is_free THEN [same EXCEPT !.ret = "DOUBLE_FREE_ATTEMPT"]
    ELSE
      LET bl1 == [blk EXCEPT ![block].is_free = TRUE, ![block].handle = 0]
          bl2 == CoalesceNext(bl1, block)
          bl3 == CoalescePrev(bl2, block)
          inRange == freeHandleCount < maxHandles
      IN [ret |-> "SUCCESS", overflow |-> ~inRange, blk |-> bl3,
          handleTable |-> [h \in DOMAIN handleTable |-> NULL],
          freeHandles |-> IF inRange
                          THEN [freeHandles EXCEPT ![freeHandleCount] = handle]
                          ELSE freeHandles,
          freeHandleCount |-> IF inRange THEN freeHandleCount + 1 ELSE handle]

\* What free(handle) returns and the state it leaves. `overflow` says that the
\* push wrote freeHandles[maxHandles], one past the array.
FreeResult(handle) ==
  LET same == [ret |-> "SUCCESS", overflow |-> FALSE, blk |-> blk,
               handleTable |-> handleTable, freeHandles |-> freeHandles,
               freeHandleCount |-> freeHandleCount]
  IN
  IF FreeInvalidHandle(handle) THEN [same EXCEPT !.ret = "INVALID_HANDLE"]
  ELSE
    LET block == handleTable[handle] IN
    IF blk[block].is_free THEN [same EXCEPT !.ret = "DOUBLE_FREE_ATTEMPT"]
    ELSE
      LET bl1 == [blk EXCEPT ![block].is_free = TRUE, ![block].handle = 0]
          bl2 == CoalesceNext(bl1, block)
          bl3 == CoalescePrev(bl2, block)
          inRange == freeHandleCount < maxHandles
      IN [ret |-> "SUCCESS", overflow |-> ~inRange, blk |-> bl3,
          handleTable |-> [handleTable EXCEPT ![handle] = NULL],
          freeHandles |-> IF inRange
                          THEN [freeHandles EXCEPT ![freeHandleCount] = handle]
                          ELSE freeHandles,
          freeHandleCount |-> IF inRange THEN freeHandleCount + 1 ELSE handle]

\* The out-of-bounds store of free either traps or lands on the member that
\* follows the array, freeHandleCount.
FreeOutcomes(r) == IF r.overflow THEN {"trap", "alias"} ELSE {"defined"}

free(handle) ==
  /\ Call
  /\ \E r \in {FreeResult(handle)} :
     \E outcome \in FreeOutcomes(r) :
       IF outcome = "trap"
       THEN /\ crashed' = TRUE
            /\ lastOp' = Op("crash", 0, "UNKNOWN_ERROR", NULL)
            /\ UNCHANGED <<blk, handleTable, freeHandles, freeHandleCount,
                           live, released>>
       ELSE /\ blk' = r.blk
            /\ handleTable' = r.handleTable
            /\ freeHandles' = r.freeHandles
            /\ freeHandleCount' = r.freeHandleCount
            /\ lastOp' = Op("free", handle, r.ret, NULL)
            /\ live' = IF r.ret = "SUCCESS" THEN live \ {handle} ELSE live
            /\ released' = IF r.ret = "SUCCESS" THEN released \cup {handle}
                           ELSE released
            /\ UNCHANGED crashed
  /\ UNCHANGED <<head, pool>>

\* ------------------------------------------------------------- getPointer
\* The payload offset of handle, or NULL.
getPointer(ht, handle) ==
  IF handle >= maxHandles \/ ht[handle] = NULL THEN NULL
  ELSE ht[handle] + memoryBlockAlignedSize

\* ------------------------------------------------------------- defragment
\* "Collect allocated blocks and their sizes": one entry per non-free block,
\* in list order.
RECURSIVE CollectAllocated(_, _)
CollectAllocated(bl, current) ==
  IF current = NULL THEN <<>>
  ELSE (IF ~bl[current].is_free
        THEN <<[handle |-> bl[current].handle, size |-> bl[current].size,
                oldPtr |-> current + memoryBlockAlignedSize]>>
        ELSE <<>>)
       \o CollectAllocated(bl, bl[current].next)

\* The scratch arrays allocatedHandles, allocatedSizes and oldPointers as one
\* run of words: array a holds entry i at word a * stride + i.  With stride =
\* maxHandles the arrays are adjacent, as declared, and an entry at or beyond
\* maxHandles lands in the next array; a larger stride is slack between them.
RECURSIVE StoreEntries(_, _, _, _)
StoreEntries(words, rec, i, stride) ==
  IF i > Len(rec) THEN words
  ELSE StoreEntries(
         [words EXCEPT
            ![i - 1] = [tag |-> "handle", val |-> rec[i].handle],
            ![stride + i - 1] = [tag |-> "size", val |-> rec[i].size],
            ![2 * stride + i - 1] = [tag |-> "ptr", val |-> rec[i].oldPtr]],
         rec, i + 1, stride)

Scratch(rec, stride) ==
  StoreEntries([k \in 0..(2 * stride + Len(rec)) |-> [tag |-> "none", val |-> 0]],
               rec, 1, stride)

\* Entry i as the later loops read it back.
ReadEntry(words, i, stride) ==
  [handle |-> words[i - 1], size |-> words[stride + i - 1],
   oldPtr |-> words[2 * stride + i - 1]]

\* A word that holds a handle or a size reads as that number; a word that
\* holds an address is far beyond any handle or size of the pool.
IsSmall(word) == word.tag \in {"handle", "size"}

\* "Reset the memory pool": head is one free block over the whole arena.
ResetPool(mem) ==
  [ok |-> TRUE,
   bl |-> (0 :> Block(poolSize - memoryBlockAlignedSize, TRUE, NULL, NULL, 0)),
   ht |-> handleTable,
   mem |-> WriteHeader(mem, 0),
   hd |-> 0,
   prevBlock |-> NULL,
   currentPtr |-> 0]

\* "Ensure alignment for the current pointer": where the next block goes.
NewBlockAddress(currentPtr) == AlignUp(currentPtr)

\* One iteration of "Reallocate blocks sequentially".  A header outside the
\* arena or a handle outside the table is a wild store: ok becomes FALSE.
PlaceBlock(st, e) ==
  LET newBlock == NewBlockAddress(st.currentPtr) IN
  IF ~st.ok \/ ~IsSmall(e.handle) \/ ~IsSmall(e.size)
     \/ e.handle.val >= maxHandles
     \/ newBlock + sizeofMemoryBlock > poolSize
  THEN [st EXCEPT !.ok = FALSE]
  ELSE
    LET handle == e.handle.val
        size == e.size.val
        kept == IF st.prevBlock = NULL THEN <<>> ELSE st.bl
        placed == (newBlock :> Block(size, FALSE, NULL, st.prevBlock, handle))
                  @@ kept
        linked == IF st.prevBlock # NULL
                  THEN [placed EXCEPT ![st.prevBlock].next = newBlock]
                  ELSE placed
    IN [ok |-> TRUE,
        bl |-> linked,
        ht |-> [st.ht EXCEPT ![handle] = newBlock],
        mem |-> WriteHeader(st.mem, newBlock),
        hd |-> IF st.prevBlock # NULL THEN st.hd ELSE newBlock,
        prevBlock |-> newBlock,
        currentPtr |-> newBlock + memoryBlockAlignedSize + size]

RECURSIVE PlaceAll(_, _, _, _, _)
PlaceAll(st, words, i, n, stride) ==
  IF i > n THEN st
  ELSE PlaceAll(PlaceBlock(st, ReadEntry(words, i, stride)), words, i + 1, n,
                stride)

\* currentPtr < pool + poolSize - minimalBlockSize
RoomForFreeBlock(currentPtr) == currentPtr < poolSize - minimalBlockSize

\* "Create a free block with the remaining memory".
TrailingFreeBlock(st) ==
  LET freeBlock == AlignUp(st.currentPtr) IN
  IF st.ok /\ RoomForFreeBlock(st.currentPtr) /\ RoomForFreeBlock(freeBlock)
  THEN
    LET kept == IF st.prevBlock = NULL THEN <<>> ELSE st.bl
        placed == (freeBlock :>
                     Block(poolSize - (freeBlock + memoryBlockAlignedSize), TRUE,
                           NULL, st.prevBlock, 0))
                  @@ kept
        linked == IF st.prevBlock # NULL
                  THEN [placed EXCEPT ![st.prevBlock].next = freeBlock]
                  ELSE placed
    IN [st EXCEPT !.bl = linked, !.mem = WriteHeader(st.mem, freeBlock),
                  !.hd = IF st.prevBlock # NULL THEN st.hd ELSE freeBlock]
  ELSE st

\* std::memmove(dst, src, n) inside the arena: whole words are copied from
\* the old contents; a word that is only partly overwritten no longer holds
\* one caller pattern.
Memmove(mem, dst, src, n) ==
  [k \in DOMAIN mem |->
     LET w == k - 1 IN
     IF dst <= w * wordSize /\ (w + 1) * wordSize <= dst + n
     THEN mem[k + WordOf(src) - WordOf(dst)]
     ELSE IF w * wordSize < dst + n /\ dst < (w + 1) * wordSize THEN 0
     ELSE mem[k]]

\* Words of the arena that hold header fields of the blocks of bl.
HeaderWords(bl) ==
  {WordOf(b) + o : b \in DOMAIN bl, o \in HeaderFieldWords}

\* One iteration of "Copy data from old locations to new locations".  A null
\* oldPtr skips the copy and a copy of zero bytes touches nothing; any other
\* copy from a word that is no address, or one that leaves the arena or runs
\* over a block header, is a wild access: ok becomes FALSE.
CopyBlock(st, e) ==
  IF ~st.ok THEN st
  ELSE
    LET size == e.size.val
        newPtr == st.ht[e.handle.val] + memoryBlockAlignedSize
        oldPtr == e.oldPtr.val
    IN
    IF (IsSmall(e.oldPtr) /\ oldPtr = 0) \/ size = 0 THEN st
    ELSE IF e.oldPtr.tag # "ptr"
            \/ oldPtr + size > poolSize
            \/ newPtr + size > poolSize
            \/ (WordOf(newPtr)..WordOf(newPtr + size - 1))
                 \cap HeaderWords(st.bl) # {}
    THEN [st EXCEPT !.ok = FALSE]
    ELSE [st EXCEPT !.mem = Memmove(st.mem, newPtr, oldPtr, size)]

RECURSIVE CopyAll(_, _, _, _, _)
CopyAll(st, words, i, n, stride) ==
  IF i > n THEN st
  ELSE CopyAll(CopyBlock(st, ReadEntry(words, i, stride)), words, i + 1, n,
               stride)

\* The state defragment() leaves when its scratch arrays are laid out with
\* the given stride.
DefragResult(stride) ==
  LET rec == CollectAllocated(blk, head)
      words == Scratch(rec, stride)
      n == Len(rec)
      laid == TrailingFreeBlock(PlaceAll(ResetPool(pool), words, 1, n, stride))
  IN CopyAll(laid, words, 1, n, stride)

\* With more non-free blocks than maxHandles the scratch arrays overflow: the
\* call traps, or the stores land in the adjacent array, or in slack.
DefragStrides ==
  LET n == Len(CollectAllocated(blk, head)) IN
  IF n > maxHandles THEN {0, maxHandles, n} ELSE {maxHandles}

defragment ==
  /\ Call
  /\ \E stride \in DefragStrides :
     \E r \in {IF stride = 0 THEN [ok |-> FALSE] ELSE DefragResult(stride)} :
       IF ~r.ok
       THEN /\ crashed' = TRUE
            /\ lastOp' = Op("crash", 0, "UNKNOWN_ERROR", NULL)
            /\ UNCHANGED <<head, blk, handleTable, pool>>
       ELSE /\ head' = r.hd
            /\ blk' = r.bl
            /\ handleTable' = r.ht
            /\ pool' = r.mem
            /\ lastOp' = Op("defragment", 0, "SUCCESS", NULL)
            /\ UNCHANGED crashed
  /\ UNCHANGED <<freeHandles, freeHandleCount, live, released>>

\* ------------------------------------------------------------ introspection
\* Counts the blocks that are not free as well.
RECURSIVE MaxAllocatableFromAnyBlock(_, _, _)
MaxAllocatableFromAnyBlock(bl, current, maxAllocatable) ==
  IF current = NULL THEN maxAllocatable
  ELSE
    LET raw == bl[current].size
        adjusted == IF raw >= minimalBlockSize + memoryBlockAlignedSize
                    THEN raw - memoryBlockAlignedSize ELSE raw
        allocatableSize == AlignDown(adjusted)
    IN MaxAllocatableFromAnyBlock(
         bl, bl[current].next,
         IF allocatableSize > maxAllocatable
         THEN allocatableSize ELSE maxAllocatable)

RECURSIVE MaxAllocatableFrom(_, _, _)
MaxAllocatableFrom(bl, current, maxAllocatable) ==
  IF current = NULL THEN maxAllocatable
  ELSE
    LET raw == bl[current].size
        adjusted == IF raw >= minimalBlockSize + memoryBlockAlignedSize
                    THEN raw - memoryBlockAlignedSize ELSE raw
        allocatableSize == AlignDown(adjusted)
    IN MaxAllocatableFrom(
         bl, bl[current].next,
         IF bl[current].is_free /\ allocatableSize > maxAllocatable
         THEN allocatableSize ELSE maxAllocatable)

getMaxAllocatableSize(bl, hd) == MaxAllocatableFrom(bl, hd, 0)

RECURSIVE TotalFreeFrom(_, _)
TotalFreeFrom(bl, current) ==
  IF current = NULL THEN 0
  ELSE (IF bl[current].is_free THEN bl[current].size ELSE 0)
       + TotalFreeFrom(bl, bl[current].next)

getTotalFreeMemory(bl, hd) == TotalFreeFrom(bl, hd)

\* ------------------------------------------------------------ the caller
\* The payload words of the block at header offset b.
PayloadWords(bl, b) ==
  {w \in 0..(WordOf(poolSize) - 1) :
     /\ b + memoryBlockAlignedSize <= w * wordSize
     /\ (w + 1) * wordSize <= b + memoryBlockAlignedSize + bl[b].size}

\* A caller fills the payload of a handle it holds with one pattern:
\* std::memset(getPointer(handle), pattern, size of the block).
write(handle, pattern) ==
  /\ ~crashed
  /\ writes < MaxWrites
  /\ handle \in live
  /\ getPointer(handleTable, handle) # NULL
  /\ pool' = [k \in DOMAIN pool |->
                IF (k - 1) \in PayloadWords(blk, handleTable[handle])
                THEN pattern ELSE pool[k]]
  /\ writes' = writes + 1
  /\ lastOp' = Op("write", handle, "SUCCESS", NULL)
  /\ UNCHANGED <<poolSize, maxHandles, head, blk, handleTable, freeHandles,
                 freeHandleCount, calls, crashed, live, released>>

\* A single caller that is not scripted: no thread takes part and no
\* history is kept.
Sequential == UNCHANGED <<threadVars, history, containerVars>>

\* The pool on its own: any sequence of alloc, free and defragment calls.
Next ==
  \/ \E size \in AllocSizes : alloc(size) /\ Sequential
  \/ \E handle \in 0..maxHandles : free(handle) /\ Sequential
  \/ defragment /\ Sequential

Spec == Init /\ [][Next]_vars

\* The pool with a caller that also writes payloads.
NextData ==
  \/ \E size \in AllocSizes : alloc(size) /\ Sequential
  \/ \E handle \in 0..maxHandles : free(handle) /\ Sequential
  \/ defragment /\ Sequential
  \/ \E handle \in Handles, pattern \in Patterns :
       write(handle, pattern) /\ Sequential

SpecData == Init /\ [][NextData]_vars

\* A caller that only allocates and frees.
NextAllocFree ==
  \/ \E size \in AllocSizes : alloc(size) /\ Sequential
  \/ \E handle \in 0..maxHandles : free(handle) /\ Sequential

SpecAllocFree == Init /\ [][NextAllocFree]_vars

\* A scripted caller on a fresh pool with room for three handles: three
\* allocs of one requested size (blocks A, B, C), then free(B), then free(C).
\* The script goes on while every call returns SUCCESS; history keeps each
\* call and the size of the block an alloc handed out.
CoalescingSizes == 1..poolSize

Scripted(size) ==
  /\ \A i \in DOMAIN history : history[i].call.ret = "SUCCESS"
  /\ history' = Append(history, [call |-> lastOp', size |-> size])
  /\ UNCHANGED <<threadVars, containerVars>>

AllocABC(size) ==
  /\ Len(history) < 3
  /\ \A i \in DOMAIN history : history[i].call.arg = size
  /\ alloc(size)
  /\ Scripted(IF lastOp'.ret = "SUCCESS"
              THEN blk'[handleTable'[lastOp'.out]].size ELSE 0)

FreeBThenC ==
  /\ Len(history) \in {3, 4}
  /\ free(history[Len(history) - 1].call.out)
  /\ Scripted(0)

InitCoalescing ==
  /\ \E ps \in PoolSizes : Construct(ps, MaxHandles + 1)
  /\ ConstructContainers(1, "RINGBUFFER_NO_OVERWRITE")

NextCoalescing ==
  \/ \E size \in CoalescingSizes : AllocABC(size)
  \/ FreeBThenC

SpecCoalescing == InitCoalescing /\ [][NextCoalescing]_vars

\* ---------------------------------------------------------------- threads
\* Every public operation opens with std::lock_guard<std::mutex>
\* lock(pool_mutex).  A thread is idle between calls, in the body of a call
\* once the guard is constructed, and at its exit once a return statement has
\* run and the guard is about to be destroyed.

\* A lock that is taken without waiting for its holder.
AcquireWithoutWaiting(t) ==
  /\ ~crashed
  /\ pc[t] = "idle"
  /\ pool_mutex' = t
  /\ pc' = [pc EXCEPT ![t] = "body"]
  /\ UNCHANGED <<poolSize, maxHandles, poolVars, pool, writes, calls, crashed,
                 lastOp, live, released, history, containerVars>>

\* The constructor of the lock_guard: blocks until the mutex is free.
Acquire(t) ==
  /\ ~crashed
  /\ pc[t] = "idle"
  /\ pool_mutex = 0
  /\ pool_mutex' = t
  /\ pc' = [pc EXCEPT ![t] = "body"]
  /\ UNCHANGED <<poolSize, maxHandles, poolVars, pool, writes, calls, crashed,
                 lastOp, live, released, history, containerVars>>

\* The destructor of the lock_guard, on whichever return the body took.
Release(t) ==
  /\ ~crashed
  /\ pc[t] = "exit"
  /\ pool_mutex' = 0
  /\ pc' = [pc EXCEPT ![t] = "idle"]
  /\ UNCHANGED <<poolSize, maxHandles, poolVars, pool, writes, calls, crashed,
                 lastOp, live, released, history, containerVars>>

\* Thread t runs the body of its call up to a return statement.
InCall(t) ==
  /\ pc[t] = "body"
  /\ pc' = [pc EXCEPT ![t] = "exit"]
  /\ UNCHANGED <<pool_mutex, history, containerVars>>

\* getPointer, getMaxAllocatableSize and getTotalFreeMemory return a value
\* and store nothing.
Observe(name, arg, value) ==
  /\ Call
  /\ lastOp' = Op(name, arg, "SUCCESS", value)
  /\ UNCHANGED <<poolVars, pool, crashed, live, released>>

NextThreads ==
  \/ \E t \in Threads : Acquire(t)
  \/ \E t \in Threads : \E size \in AllocSizes : InCall(t) /\ alloc(size)
  \/ \E t \in Threads : \E handle \in 0..maxHandles : InCall(t) /\ free(handle)
  \/ \E t \in Threads : InCall(t) /\ defragment
  \/ \E t \in Threads : \E handle \in 0..maxHandles :
       InCall(t) /\ Observe("getPointer", handle, getPointer(handleTable, handle))
  \/ \E t \in Threads :
       InCall(t) /\ Observe("getMaxAllocatableSize", 0,
                            getMaxAllocatableSize(blk, head))
  \/ \E t \in Threads :
       InCall(t) /\ Observe("getTotalFreeMemory", 0,
                            getTotalFreeMemory(blk, head))
  \/ \E t \in Threads : Release(t)

SpecThreads == Init /\ [][NextThreads]_vars

\* The body of whichever operation thread t has called.
Operation(t) ==
  /\ InCall(t)
  /\ \/ \E size \in AllocSizes : alloc(size)
     \/ \E handle \in 0..maxHandles : free(handle)
     \/ defragment
     \/ \E handle \in 0..maxHandles :
          Observe("getPointer", handle, getPointer(handleTable, handle))
     \/ Observe("getMaxAllocatableSize", 0, getMaxAllocatableSize(blk, head))
     \/ Observe("getTotalFreeMemory", 0, getTotalFreeMemory(blk, head))

\* The scheduler runs every thread that can run: a thread inside an
\* operation is not suspended forever, neither in the body nor before the
\* destructor of its lock_guard.
SpecThreadsFair ==
  /\ SpecThreads
  /\ \A t \in Threads : WF_vars(Operation(t)) /\ WF_vars(Release(t))

\* A caller that compares the pool around an alloc and the free that follows
\* it, as testGetMaxAllocatableSize does: after a successful alloc, history
\* holds that call and the pool as it was before it; when the next call is
\* free of the handle just returned, that call is added; any other call
\* empties history.
Snapshot ==
  [head |-> head, blk |-> blk, handleTable |-> handleTable,
   freeHandles |-> freeHandles, freeHandleCount |-> freeHandleCount]

Remember ==
  /\ history' =
       IF lastOp'.op = "alloc" /\ lastOp'.ret = "SUCCESS"
       THEN <<[call |-> lastOp', before |-> Snapshot]>>
       ELSE IF /\ Len(history) = 1
               /\ lastOp'.op = "free"
               /\ lastOp'.arg = history[1].call.out
            THEN Append(history, [call |-> lastOp', before |-> Snapshot])
            ELSE <<>>
  /\ UNCHANGED <<threadVars, containerVars>>

NextRemembering ==
  \/ \E size \in AllocSizes : alloc(size) /\ Remember
  \/ \E handle \in 0..maxHandles : free(handle) /\ Remember
  \/ defragment /\ Remember

SpecRemembering == Init /\ [][NextRemembering]_vars

\* A caller that also asks for as much as the pool reports:
\* memPool.alloc(memPool.getMaxAllocatableSize(), handle).
allocMaxAllocatable ==
  \E size \in {getMaxAllocatableSize(blk, head)} : alloc(size)

NextMaxAllocatable ==
  \/ \E size \in AllocSizes : alloc(size) /\ Sequential
  \/ \E handle \in 0..maxHandles : free(handle) /\ Sequential
  \/ defragment /\ Sequential
  \/ allocMaxAllocatable /\ Sequential

SpecMaxAllocatable == Init /\ [][NextMaxAllocatable]_vars

\* A caller that keeps a ledger of the handle values it was given and gave
\* back: `pending` is the sequence of values it freed that were not reissued
\* since, oldest first, `issued` the set of values it was ever given, and
\* `freed` says whether any free succeeded.
NoLedger == [pending |-> <<>>, issued |-> {}, freed |-> FALSE]

Ledger == IF history = <<>> THEN NoLedger ELSE history[1]

\* The sequence s without its last occurrence of h.
RECURSIVE WithoutLast(_, _)
WithoutLast(s, h) ==
  IF s = <<>> THEN <<>>
  ELSE IF s[Len(s)] = h THEN SubSeq(s, 1, Len(s) - 1)
  ELSE Append(WithoutLast(SubSeq(s, 1, Len(s) - 1), h), s[Len(s)])

KeepLedger ==
  /\ history' =
       IF lastOp'.op = "alloc" /\ lastOp'.ret = "SUCCESS"
       THEN <<[pending |-> WithoutLast(Ledger.pending, lastOp'.out),
               issued |-> Ledger.issued \cup {lastOp'.out},
               freed |-> Ledger.freed]>>
       ELSE IF lastOp'.op = "free" /\ lastOp'.ret = "SUCCESS"
       THEN <<[pending |-> Append(Ledger.pending, lastOp'.arg),
               issued |-> Ledger.issued,
               freed |-> TRUE]>>
       ELSE history
  /\ Len(Ledger.pending) <= maxHandles + 1
  /\ UNCHANGED <<threadVars, containerVars>>

NextHandleOrder ==
  \/ \E size \in AllocSizes : alloc(size) /\ KeepLedger
  \/ \E handle \in 0..maxHandles : free(handle) /\ KeepLedger
  \/ defragment /\ KeepLedger

SpecHandleOrder == Init /\ [][NextHandleOrder]_vars

\* ------------------------------------------------------------ ring buffer
Values == 1..NumValues

OverwriteSettings == {"RINGBUFFER_NO_OVERWRITE", "RINGBUFFER_ALLOW_OVERWRITE"}

\* The memory pool takes no part in the container specifications.
memoryPoolIdle ==
  UNCHANGED <<poolSize, maxHandles, poolVars, pool, writes, calls, crashed,
              live, released, threadVars, history>>

\* Accepts an element although the buffer is full.
writeSingleOffByOne(rb, data) ==
  IF rb.m_elementsWritten <= rb.m_elementCount
  THEN [rb |-> [rb EXCEPT
                  !.m_itemArray[rb.m_writeIndex] = data,
                  !.m_writeIndex = (@ + 1) % rb.m_elementCount,
                  !.m_elementsWritten =
                    (@ + 1) - (IF @ >= rb.m_elementCount THEN 1 ELSE 0)],
        result |-> TRUE]
  ELSE [rb |-> rb, result |-> FALSE]

\* bool writeSingle(T &data): the buffer after the call and the result.
writeSingle(rb, data) ==
  IF rb.m_elementsWritten < rb.m_elementCount
  THEN [rb |-> [rb EXCEPT
                  !.m_itemArray[rb.m_writeIndex] = data,
                  !.m_writeIndex = (@ + 1) % rb.m_elementCount,
                  !.m_elementsWritten =
                    (@ + 1) - (IF @ >= rb.m_elementCount THEN 1 ELSE 0)],
        result |-> TRUE]
  ELSE [rb |-> rb, result |-> FALSE]

\* Overwrites the oldest element and leaves the read index on it.
overWriteSingleKeepsReadIndex(rb, data) ==
  LET written == [rb EXCEPT
                    !.m_itemArray[rb.m_writeIndex] = data,
                    !.m_writeIndex = (@ + 1) % rb.m_elementCount,
                    !.m_elementsWritten = @ + 1]
  IN [rb |-> IF written.m_elementsWritten > written.m_elementCount
             THEN [written EXCEPT !.m_elementsWritten = @ - 1]
             ELSE written,
      result |-> TRUE]

\* bool overWriteSingle(T &data)
overWriteSingle(rb, data) ==
  LET written == [rb EXCEPT
                    !.m_itemArray[rb.m_writeIndex] = data,
                    !.m_writeIndex = (@ + 1) % rb.m_elementCount,
                    !.m_elementsWritten = @ + 1]
  IN [rb |-> IF written.m_elementsWritten > written.m_elementCount
             THEN [written EXCEPT
                     !.m_readIndex = (@ + 1) % rb.m_elementCount,
                     !.m_elementsWritten = @ - 1]
             ELSE written,
      result |-> TRUE]

\* m_writeFunctionType[m_overwriteSetting], as fillFunctionPointers sets it.
writeFunction(rb, data) ==
  IF rb.m_overwriteSetting = "RINGBUFFER_NO_OVERWRITE"
  THEN writeSingle(rb, data)
  ELSE overWriteSingle(rb, data)

\* *(data + index) for a caller array of Len(data) items; an index past the
\* array reads whatever lies behind it.
ItemAt(data, beyond, index) ==
  IF index < Len(data) THEN data[index + 1] ELSE beyond

\* The do-while loop of both array writes: one writeFunction call per round,
\* until index reaches dataCount or a call fails.
RECURSIVE WriteLoop(_, _, _, _, _, _)
WriteLoop(rb, data, beyond, dataCount, index, dataWrittenSuccesfully) ==
  LET w == writeFunction(rb, ItemAt(data, beyond, index))
      written == dataWrittenSuccesfully + (IF w.result THEN 1 ELSE 0)
  IN IF (index + 1 < dataCount) /\ w.result
     THEN WriteLoop(w.rb, data, beyond, dataCount, index + 1, written)
     ELSE [rb |-> w.rb, index |-> index + 1, result |-> w.result,
           dataWrittenSuccesfully |-> written]

\* bool read(T &data)
ReadSingle(rb) ==
  LET dataAvailable == IF rb.m_elementsWritten > 0 THEN 1 ELSE 0 IN
  [rb |-> [rb EXCEPT
             !.m_itemArray[rb.m_readIndex] = 0,
             !.m_readIndex = (@ + dataAvailable) % rb.m_elementCount,
             !.m_elementsWritten = @ - dataAvailable],
   data |-> rb.m_itemArray[rb.m_readIndex],
   result |-> dataAvailable = 1]

\* The do-while loop of the array read.
RECURSIVE ReadLoop(_, _, _)
ReadLoop(rb, dataRead, data) ==
  LET r == ReadSingle(rb)
      got == IF r.result THEN Append(data, r.data) ELSE data
  IN IF (Len(got) < dataRead) /\ r.result
     THEN ReadLoop(r.rb, dataRead, got)
     ELSE [rb |-> r.rb, data |-> got]

\* bool write(T &dataRef) and bool write(const T &data)
ringBufferWrite(data) ==
  /\ \E w \in {writeFunction(ringBuffer, data)} :
       /\ ringBuffer' = w.rb
       /\ lastOp' = Op("write", data, w.result, NULL)
  /\ UNCHANGED <<fifoQueue, lifoQueue, singlyLinkedList>>
  /\ memoryPoolIdle

\* size_t write(T data[], const size_t dataCount): returns index.
ringBufferWriteArray(data, beyond) ==
  /\ \E w \in {WriteLoop(ringBuffer, data, beyond, Len(data), 0, 0)} :
       /\ ringBuffer' = w.rb
       /\ lastOp' = Op("writeArray", data, TRUE, w.index)
  /\ UNCHANGED <<fifoQueue, lifoQueue, singlyLinkedList>>
  /\ memoryPoolIdle

\* bool write(T data[], size_t &dataCount): returns the last result and
\* stores dataWrittenSuccesfully in dataCount.
ringBufferWriteArrayCounted(data, beyond) ==
  /\ \E w \in {WriteLoop(ringBuffer, data, beyond, Len(data), 0, 0)} :
       /\ ringBuffer' = w.rb
       /\ lastOp' = Op("writeArrayCounted", data, w.result,
                       w.dataWrittenSuccesfully)
  /\ UNCHANGED <<fifoQueue, lifoQueue, singlyLinkedList>>
  /\ memoryPoolIdle

ringBufferRead ==
  /\ \E r \in {ReadSingle(ringBuffer)} :
       /\ ringBuffer' = r.rb
       /\ lastOp' = Op("read", 0, r.result, r.data)
  /\ UNCHANGED <<fifoQueue, lifoQueue, singlyLinkedList>>
  /\ memoryPoolIdle

\* size_t read(T data[], const size_t dataRead)
ringBufferReadArray(dataRead) ==
  /\ \E r \in {ReadLoop(ringBuffer, dataRead, <<>>)} :
       /\ ringBuffer' = r.rb
       /\ lastOp' = Op("readArray", dataRead, TRUE, r.data)
  /\ UNCHANGED <<fifoQueue, lifoQueue, singlyLinkedList>>
  /\ memoryPoolIdle

\* void reset()
ringBufferReset ==
  /\ ringBuffer' = RingBufferNew(ringBuffer.m_elementCount,
                                 ringBuffer.m_overwriteSetting)
  /\ lastOp' = Op("reset", 0, TRUE, NULL)
  /\ UNCHANGED <<fifoQueue, lifoQueue, singlyLinkedList>>
  /\ memoryPoolIdle

setOverwriteBehavior(overwrite) ==
  /\ ringBuffer' = [ringBuffer EXCEPT !.m_overwriteSetting = overwrite]
  /\ lastOp' = Op("setOverwriteBehavior", overwrite, TRUE, NULL)
  /\ UNCHANGED <<fifoQueue, lifoQueue, singlyLinkedList>>
  /\ memoryPoolIdle

\* The arrays a caller hands to the array writes.
DataArrays == UNION {[1..n -> Values] : n \in 0..MaxDataCount}

\* What the first round of the loop reads when the array has no element: any
\* value.  The loop never reads past an array that has one.
Beyond(data) == IF data = <<>> THEN Values ELSE {0}

InitRingBuffer ==
  /\ Construct(PoolWords * wordSize, MaxHandles)
  /\ \E elementCount \in 1..MaxElementCount, overWrite \in OverwriteSettings :
       ConstructContainers(elementCount, overWrite)

NextRingBuffer ==
  \/ \E data \in Values : ringBufferWrite(data)
  \/ \E data \in DataArrays : \E beyond \in Beyond(data) :
       ringBufferWriteArray(data, beyond)
  \/ \E data \in DataArrays : \E beyond \in Beyond(data) :
       ringBufferWriteArrayCounted(data, beyond)
  \/ ringBufferRead
  \/ \E dataRead \in 0..MaxDataCount : ringBufferReadArray(dataRead)
  \/ ringBufferReset
  \/ \E overwrite \in OverwriteSettings : setOverwriteBehavior(overwrite)

SpecRingBuffer == InitRingBuffer /\ [][NextRingBuffer]_vars

\* ================================================================ queues
\* src/MemoryManagement/queue.hpp: fifoQueue<T, queueSize> and
\* lifoQueue<T, queueSize> over the members of queueBase.  Every operation
\* holds m_mutex from its first statement to its return, so it is one step.
incrementIndex(index) == (index + 1) % QueueSize

decrementIndex(index) == IF index = 0 THEN QueueSize - 1 ELSE index - 1

isEmpty(q) == q.m_currentSize = 0

isFull(q) == q.m_currentSize = QueueSize

queueBase_size(q) == q.m_currentSize

\* Stores over the oldest element of a full queue without giving it up.
fifoQueue_pushKeepsHead(q, item) ==
  [q |-> [q EXCEPT
            !.m_currentSize = IF @ = QueueSize THEN @ ELSE @ + 1,
            !.m_data[q.m_tail] = item,
            !.m_tail = incrementIndex(@)],
   result |-> TRUE]

\* bool fifoQueue::push(const T& item)
fifoQueue_push(q, item) ==
  [q |-> [q EXCEPT
            !.m_head = IF q.m_currentSize = QueueSize
                       THEN incrementIndex(@) ELSE @,
            !.m_currentSize = IF @ = QueueSize THEN @ ELSE @ + 1,
            !.m_data[q.m_tail] = item,
            !.m_tail = incrementIndex(@)],
   result |-> TRUE]

\* bool fifoQueue::pop(T& item); item is left alone (NULL) on false.
fifoQueue_pop(q) ==
  IF q.m_currentSize = 0
  THEN [q |-> q, result |-> FALSE, item |-> NULL]
  ELSE [q |-> [q EXCEPT !.m_head = incrementIndex(@),
                        !.m_currentSize = @ - 1],
        result |-> TRUE,
        item |-> q.m_data[q.m_head]]

\* bool fifoQueue::peek(T& item) const
fifoQueue_peek(q) ==
  IF q.m_currentSize = 0
  THEN [q |-> q, result |-> FALSE, item |-> NULL]
  ELSE [q |-> q, result |-> TRUE, item |-> q.m_data[q.m_head]]

\* bool lifoQueue::push(const T& item)
lifoQueue_push(q, item) ==
  IF q.m_currentSize = QueueSize
  THEN [q |-> q, result |-> FALSE]
  ELSE [q |-> [q EXCEPT !.m_data[q.m_tail] = item,
                        !.m_tail = incrementIndex(@),
                        !.m_currentSize = @ + 1],
        result |-> TRUE]

\* Takes the element at m_tail, one past the most recent one.
lifoQueue_popAtTail(q) ==
  IF q.m_currentSize = 0
  THEN [q |-> q, result |-> FALSE, item |-> NULL]
  ELSE [q |-> [q EXCEPT !.m_tail = decrementIndex(@),
                        !.m_currentSize = @ - 1],
        result |-> TRUE,
        item |-> q.m_data[q.m_tail]]

\* bool lifoQueue::pop(T& item)
lifoQueue_pop(q) ==
  IF q.m_currentSize = 0
  THEN [q |-> q, result |-> FALSE, item |-> NULL]
  ELSE [q |-> [q EXCEPT !.m_tail = decrementIndex(@),
                        !.m_currentSize = @ - 1],
        result |-> TRUE,
        item |-> q.m_data[decrementIndex(q.m_tail)]]

\* bool lifoQueue::peek(T& item) const
lifoQueue_peek(q) ==
  IF q.m_currentSize = 0
  THEN [q |-> q, result |-> FALSE, item |-> NULL]
  ELSE [q |-> q, result |-> TRUE, item |-> q.m_data[decrementIndex(q.m_tail)]]

fifoPush(item) ==
  /\ \E r \in {fifoQueue_push(fifoQueue, item)} :
       /\ fifoQueue' = r.q
       /\ lastOp' = Op("push", item, r.result, NULL)
  /\ UNCHANGED <<ringBuffer, lifoQueue, singlyLinkedList>>
  /\ memoryPoolIdle

fifoPop ==
  /\ \E r \in {fifoQueue_pop(fifoQueue)} :
       /\ fifoQueue' = r.q
       /\ lastOp' = Op("pop", 0, r.result, r.item)
  /\ UNCHANGED <<ringBuffer, lifoQueue, singlyLinkedList>>
  /\ memoryPoolIdle

fifoPeek ==
  /\ \E r \in {fifoQueue_peek(fifoQueue)} :
       /\ fifoQueue' = r.q
       /\ lastOp' = Op("peek", 0, r.result, r.item)
  /\ UNCHANGED <<ringBuffer, lifoQueue, singlyLinkedList>>
  /\ memoryPoolIdle

\* isEmpty(), isFull() and queueBase_size() in one observation.
fifoSize ==
  /\ lastOp' = Op("size", 0, <<isEmpty(fifoQueue), isFull(fifoQueue)>>,
                  queueBase_size(fifoQueue))
  /\ UNCHANGED containerVars
  /\ memoryPoolIdle

lifoPush(item) ==
  /\ \E r \in {lifoQueue_push(lifoQueue, item)} :
       /\ lifoQueue' = r.q
       /\ lastOp' = Op("push", item, r.result, NULL)
  /\ UNCHANGED <<ringBuffer, fifoQueue, singlyLinkedList>>
  /\ memoryPoolIdle

lifoPop ==
  /\ \E r \in {lifoQueue_pop(lifoQueue)} :
       /\ lifoQueue' = r.q
       /\ lastOp' = Op("pop", 0, r.result, r.item)
  /\ UNCHANGED <<ringBuffer, fifoQueue, singlyLinkedList>>
  /\ memoryPoolIdle

lifoPeek ==
  /\ \E r \in {lifoQueue_peek(lifoQueue)} :
       /\ lifoQueue' = r.q
       /\ lastOp' = Op("peek", 0, r.result, r.item)
  /\ UNCHANGED <<ringBuffer, fifoQueue, singlyLinkedList>>
  /\ memoryPoolIdle

lifoSize ==
  /\ lastOp' = Op("size", 0, <<isEmpty(lifoQueue), isFull(lifoQueue)>>,
                  queueBase_size(lifoQueue))
  /\ UNCHANGED containerVars
  /\ memoryPoolIdle

InitQueue ==
  /\ Construct(PoolWords * wordSize, MaxHandles)
  /\ ConstructContainers(1, "RINGBUFFER_NO_OVERWRITE")

NextFifoQueue ==
  \/ \E item \in Values : fifoPush(item)
  \/ fifoPop
  \/ fifoPeek
  \/ fifoSize

SpecFifoQueue == InitQueue /\ [][NextFifoQueue]_vars

NextLifoQueue ==
  \/ \E item \in Values : lifoPush(item)
  \/ lifoPop
  \/ lifoPeek
  \/ lifoSize

SpecLifoQueue == InitQueue /\ [][NextLifoQueue]_vars

\* =========================================================== linked list
\* src/MemoryManagement/linked_list.hpp: singlyLinkedList over sllNode.  The
\* list does not own its nodes; m_next[n] is the m_next member of node n.
\* The caller pushes each node once, in the order of Nodes.
listIdle ==
  UNCHANGED <<poolSize, maxHandles, poolVars, pool, writes, calls, live,
              released, threadVars, history, ringBuffer, fifoQueue, lifoQueue>>

\* void pushFront(nodeType node)
pushFront(node) ==
  /\ ~crashed
  /\ node = singlyLinkedList.m_count + 1
  /\ singlyLinkedList' =
       IF singlyLinkedList.m_head = NULL
       THEN [singlyLinkedList EXCEPT !.m_head = node,
                                     !.m_tail = node,
                                     !.m_count = @ + 1]
       ELSE [singlyLinkedList EXCEPT !.m_next[node] = singlyLinkedList.m_head,
                                     !.m_head = node,
                                     !.m_count = @ + 1]
  /\ lastOp' = Op("pushFront", node, TRUE, NULL)
  /\ UNCHANGED crashed
  /\ listIdle

\* void pushBack(nodeType node), and push(node), which calls it.
pushBack(node) ==
  /\ ~crashed
  /\ node = singlyLinkedList.m_count + 1
  /\ singlyLinkedList' =
       IF singlyLinkedList.m_tail = NULL
       THEN [singlyLinkedList EXCEPT !.m_head = node,
                                     !.m_tail = node,
                                     !.m_count = @ + 1]
       ELSE [singlyLinkedList EXCEPT !.m_next[singlyLinkedList.m_tail] = node,
                                     !.m_tail = node,
                                     !.m_count = @ + 1]
  /\ lastOp' = Op("pushBack", node, TRUE, NULL)
  /\ UNCHANGED crashed
  /\ listIdle

\* void makeCircular()
makeCircular ==
  /\ ~crashed
  /\ singlyLinkedList' =
       IF /\ singlyLinkedList.m_head # NULL
          /\ singlyLinkedList.m_next[singlyLinkedList.m_tail] = NULL
       THEN [singlyLinkedList EXCEPT
               !.m_next[singlyLinkedList.m_tail] = singlyLinkedList.m_head,
               !.m_circular = TRUE]
       ELSE [singlyLinkedList EXCEPT !.m_circular = TRUE]
  /\ lastOp' = Op("makeCircular", 0, TRUE, NULL)
  /\ UNCHANGED crashed
  /\ listIdle

\* void breakCircularity()
breakCircularity ==
  /\ ~crashed
  /\ singlyLinkedList' =
       IF /\ singlyLinkedList.m_head # NULL
          /\ singlyLinkedList.m_next[singlyLinkedList.m_tail] # NULL
       THEN [singlyLinkedList EXCEPT
               !.m_next[singlyLinkedList.m_tail] = NULL,
               !.m_circular = FALSE]
       ELSE [singlyLinkedList EXCEPT !.m_circular = FALSE]
  /\ lastOp' = Op("breakCircularity", 0, TRUE, NULL)
  /\ UNCHANGED crashed
  /\ listIdle

\* What fast->getNext() does when fast is nullptr: the read of address 0
\* traps, or the build returns either answer.
NullDereference == {"trap", "true", "false"}

\* The loop of testCircularity with fast and slow as they are before its
\* condition is evaluated; the set of results the call can give.
RECURSIVE FastSlow(_, _, _)
FastSlow(list, fast, slow) ==
  IF fast = NULL
  THEN NullDereference
  ELSE IF ~(list.m_next[fast] # NULL /\ list.m_next[fast] # NULL)
       THEN {"false"}
       ELSE IF list.m_next[list.m_next[fast]] = list.m_next[slow]
            THEN {"true"}
            ELSE FastSlow(list, list.m_next[list.m_next[fast]],
                          list.m_next[slow])

\* bool testCircularity() const
testCircularity ==
  /\ ~crashed
  /\ \E isCircular \in FastSlow(singlyLinkedList, singlyLinkedList.m_head,
                                singlyLinkedList.m_head) :
       /\ lastOp' = Op("testCircularity", 0, isCircular = "true", NULL)
       /\ crashed' = (isCircular = "trap")
  /\ UNCHANGED singlyLinkedList
  /\ listIdle

InitLinkedList ==
  /\ Construct(PoolWords * wordSize, MaxHandles)
  /\ ConstructContainers(1, "RINGBUFFER_NO_OVERWRITE")

NextLinkedList ==
  \/ \E node \in Nodes : pushFront(node)
  \/ \E node \in Nodes : pushBack(node)
  \/ makeCircular
  \/ breakCircularity
  \/ testCircularity

SpecLinkedList == InitLinkedList /\ [][NextLinkedList]_vars

\* ================================================================ claims
\* The pool calls that returned, as a caller sees them in lastOp.
AllocFailed(op) == op.op = "alloc" /\ op.ret # "SUCCESS"

AllocSucceeded(op) == op.op = "alloc" /\ op.ret = "SUCCESS"

Defragmented(op) == op.op = "defragment"

\* The word at index w, or 0 outside the arena.
ReadWord(mem, w) == IF (w + 1) \in DOMAIN mem THEN mem[w + 1] ELSE 0

\* The n bytes a caller reads at payload offset p, word by word.
ReadPayload(mem, p, n) ==
  [i \in 1..(n \div wordSize) |-> ReadWord(mem, WordOf(p) + i - 1)]

\* C1: an alloc call that returns a failure code leaves the block list, the
\* handle table and the free-handle stack as they were; a HANDLE_TABLE_FULL
\* failure leaves the block it found free and unsplit.
C1_FailedAllocLeavesPoolUnchanged ==
  [][AllocFailed(lastOp') => UNCHANGED poolVars]_vars

\* C2: for every handle live before defragment() whose payload the caller has
\* written, the bytes read through getPointer after the call are the bytes
\* stored in the payload before it.
C2_DefragmentKeepsPayloadBytes ==
  [][Defragmented(lastOp') =>
       \A h \in live :
         LET before == getPointer(handleTable, h)
             size == blk[handleTable[h]].size
         IN (before # NULL
             /\ \A i \in DOMAIN ReadPayload(pool, before, size) :
                  ReadPayload(pool, before, size)[i] \in Patterns)
            => /\ getPointer(handleTable', h) # NULL
               /\ ReadPayload(pool', getPointer(handleTable', h), size)
                  = ReadPayload(pool, before, size)]_vars

\* C3: a successful alloc never returns a handle that is live, that is, one
\* returned by an earlier successful alloc and not freed since.
C3_NoDoubleIssuance ==
  [][AllocSucceeded(lastOp') => lastOp'.out \notin live]_vars

\* C4: the block list tiles the arena: the first block starts at offset 0,
\* each successor starts where its predecessor ends, the last block ends at
\* poolSize, and next and prev are mutually inverse.
BlockEnd(bl, b) == b + memoryBlockAlignedSize + bl[b].size

Tiles(bl, hd) ==
  LET list == ListFrom(bl, hd) IN
  /\ hd = 0
  /\ bl[hd].prev = NULL
  /\ \A i \in 1..(Len(list) - 1) :
       /\ list[i + 1] = BlockEnd(bl, list[i])
       /\ bl[list[i + 1]].prev = list[i]
  /\ BlockEnd(bl, list[Len(list)]) = poolSize

C4_BlocksTileArena == Tiles(blk, head)

\* C5: getMaxAllocatableSize() right after defragment() is at least its value
\* right before the call.
C5_DefragmentNeverShrinksMaxAllocatable ==
  [][Defragmented(lastOp') =>
       getMaxAllocatableSize(blk', head') >= getMaxAllocatableSize(blk, head)]_vars

\* C6: defragment() changes no handle: the handles with a non-null pointer,
\* the block size each of them owns and the free-handle stack are the same
\* before and after the call.
SizeOwned(bl, ht, h) == IF ht[h] = NULL THEN NULL ELSE bl[ht[h]].size

C6_DefragmentChangesNoHandle ==
  [][Defragmented(lastOp') =>
       /\ \A h \in Handles :
            /\ (getPointer(handleTable', h) = NULL)
               <=> (getPointer(handleTable, h) = NULL)
            /\ SizeOwned(blk', handleTable', h) = SizeOwned(blk, handleTable, h)
       /\ UNCHANGED <<freeHandles, freeHandleCount>>]_vars

\* C7: after defragment() the non-free blocks come first in the list, in the
\* order they had before the call, packed from offset 0 with no gap between
\* them, and the list holds at most one free block, which is its last block.
HandleOrder(bl, hd) ==
  LET rec == CollectAllocated(bl, hd) IN [i \in DOMAIN rec |-> rec[i].handle]

C7_DefragmentCompactsInOrder ==
  [][Defragmented(lastOp') =>
       LET list == ListFrom(blk', head')
           nLive == Len(CollectAllocated(blk', head'))
       IN /\ HandleOrder(blk', head') = HandleOrder(blk, head)
          /\ \A i \in DOMAIN list : blk'[list[i]].is_free <=> i > nLive
          /\ Len(list) <= nLive + 1
          /\ nLive > 0 => list[1] = 0
          /\ \A i \in 1..(nLive - 1) : list[i + 1] = BlockEnd(blk', list[i])]_vars

C9_FreeRejectsExactlyInvalidHandles ==
  [][lastOp'.op = "free" =>
       /\ lastOp'.ret = "INVALID_HANDLE"
            <=> (lastOp'.arg >= maxHandles \/ handleTable[lastOp'.arg] = NULL)
       /\ lastOp'.ret # "SUCCESS" => UNCHANGED poolVars]_vars

\* free returned INVALID_HANDLE for an in-range handle whose slot is null,
\* while another handle is live.
C9_Witness ==
  /\ lastOp.op = "free"
  /\ lastOp.ret = "INVALID_HANDLE"
  /\ lastOp.arg < maxHandles
  /\ live # {}

\* C10: a handle that was freed successfully and has not been reissued since
\* is rejected by free with INVALID_HANDLE and resolves to a null pointer.
C10_FreedHandleStaysInvalid ==
  \A h \in released :
    /\ FreeResult(h).ret = "INVALID_HANDLE"
    /\ getPointer(handleTable, h) = NULL

\* C11: in every pool state alloc(size) returns INVALID_SIZE exactly when
\* size is 0 or size is larger than poolSize minus the header size, also when
\* the pool has no free block or no free handle.
C11_InvalidSizeExactly ==
  \A size \in 0..(poolSize + 1) :
    AllocReturn(size) = "INVALID_SIZE"
      <=> (size = 0 \/ size > poolSize - memoryBlockAlignedSize)

\* alloc returned INVALID_SIZE while no handle and no free block was left.
C11_Witness ==
  /\ lastOp.op = "alloc"
  /\ lastOp.ret = "INVALID_SIZE"
  /\ freeHandleCount = 0
  /\ getTotalFreeMemory(blk, head) = 0

\* C12: for a request with 0 < size <= poolSize - H, alloc returns
\* ALLOCATION_FAILED exactly when no free block of the list has at least the
\* rounded size, HANDLE_TABLE_FULL exactly when such a block exists and the
\* free-handle stack is empty, and SUCCESS, with a handle written out, in
\* every other case.
\* The size of the largest free block of the list, or NULL if none is free.
RECURSIVE LargestFreeFrom(_, _)
LargestFreeFrom(bl, b) ==
  IF b = NULL THEN NULL
  ELSE LET rest == LargestFreeFrom(bl, bl[b].next)
       IN IF bl[b].is_free /\ bl[b].size > rest THEN bl[b].size ELSE rest

C12_AllocReturnCodes ==
  /\ \A largest \in {LargestFreeFrom(blk, head)} :
     \A size \in 1..(poolSize - memoryBlockAlignedSize) :
       AllocReturn(size) =
         IF AlignUp(size) > largest THEN "ALLOCATION_FAILED"
         ELSE IF freeHandleCount = 0 THEN "HANDLE_TABLE_FULL"
         ELSE "SUCCESS"
  /\ AllocSucceeded(lastOp) => lastOp.out \in Handles

\* alloc returned ALLOCATION_FAILED for lack of one large enough block
\* although a handle is free and free memory is left.
C12_Witness ==
  /\ lastOp.op = "alloc"
  /\ lastOp.ret = "ALLOCATION_FAILED"
  /\ freeHandleCount > 0
  /\ getTotalFreeMemory(blk, head) > 0

\* C14: every non-null pointer getPointer returns lies at an arena offset
\* that is a multiple of the alignment, and every block alloc's split creates
\* has a size that is a multiple of the alignment.
PointersAligned(ht) ==
  \A h \in Handles :
    getPointer(ht, h) # NULL => getPointer(ht, h) % alignment = 0

C14_PointersAndSplitSizesAligned ==
  [][/\ PointersAligned(handleTable')
     /\ (lastOp'.op = "alloc" /\ ~AllocInvalidSize(lastOp'.arg)) =>
          LET size == AlignUp(lastOp'.arg)
              current == FirstFit(blk, head, size)
              new_block == current + size + memoryBlockAlignedSize
          IN (current # NULL /\ CanSplit(blk, current, size)) =>
               /\ blk'[current].size % alignment = 0
               /\ blk'[new_block].size % alignment = 0]_vars

\* C17: getPointer(h) is null exactly when h >= maxHandles or h is not
\* currently allocated; otherwise it is the address H bytes past the start of
\* the block that h owns.
C17_PointerExactlyForAllocatedHandles ==
  \A h \in 0..maxHandles :
    LET p == getPointer(handleTable, h) IN
    /\ p = NULL <=> (h >= maxHandles \/ h \notin live)
    /\ p # NULL =>
         \E i \in DOMAIN ListFrom(blk, head) :
           LET b == ListFrom(blk, head)[i] IN
           /\ ~blk[b].is_free
           /\ blk[b].handle = h
           /\ p = b + memoryBlockAlignedSize

\* C18: with a free handle available, m = getMaxAllocatableSize() is the
\* largest size one alloc can satisfy: alloc(m) succeeds when m > 0 and
\* alloc(s) fails for every s > m.
C18_MaxAllocatableIsLargestRequest ==
  freeHandleCount > 0 =>
    \A m \in {getMaxAllocatableSize(blk, head)} :
      /\ m > 0 => AllocReturn(m) = "SUCCESS"
      /\ \A s \in (m + 1)..(poolSize + 1) : AllocReturn(s) # "SUCCESS"

\* The payload range [lo, hi) that handle h resolves to.
PayloadRange(bl, ht, h) ==
  [lo |-> getPointer(ht, h), hi |-> getPointer(ht, h) + bl[ht[h]].size]

Overlap(lo1, hi1, lo2, hi2) == lo1 < hi2 /\ lo2 < hi1

\* The payload ranges of the live handles are pairwise disjoint, inside the
\* arena and clear of every block header.
PayloadsApart(bl, hd, ht, lv, ps) ==
  \A h \in lv :
    getPointer(ht, h) # NULL =>
      \A r \in {PayloadRange(bl, ht, h)} :
        /\ 0 <= r.lo /\ r.hi <= ps
        /\ \A g \in lv \ {h} :
             getPointer(ht, g) # NULL =>
               ~Overlap(r.lo, r.hi, PayloadRange(bl, ht, g).lo,
                        PayloadRange(bl, ht, g).hi)
        /\ \A i \in DOMAIN ListFrom(bl, hd) :
             ~Overlap(r.lo, r.hi, ListFrom(bl, hd)[i],
                      ListFrom(bl, hd)[i] + memoryBlockAlignedSize)

\* C13: in every reachable state the payload ranges of distinct live handles
\* are pairwise disjoint, lie inside the arena and overlap no block header;
\* and the bytes read through a live handle are the same after every step
\* that is neither a write through that handle, nor a free of it, nor a
\* defragment().
C13_PayloadsIsolated ==
  [][/\ PayloadsApart(blk', head', handleTable', live', poolSize')
     /\ \A h \in live :
          (/\ getPointer(handleTable, h) # NULL
           /\ ~Defragmented(lastOp')
           /\ ~(lastOp'.op \in {"free", "write"} /\ lastOp'.arg = h))
          => /\ getPointer(handleTable', h) # NULL
             /\ ReadPayload(pool', getPointer(handleTable', h),
                            blk'[handleTable'[h]].size)
                = ReadPayload(pool, getPointer(handleTable, h),
                              blk[handleTable[h]].size)]_vars

\* Sum over the blocks of the list from b: the payload size of a free block,
\* the payload size and header of an allocated one, and the blocks counted.
RECURSIVE BlockSums(_, _)
BlockSums(bl, b) ==
  IF b = NULL THEN [free |-> 0, allocated |-> 0, freeBlocks |-> 0]
  ELSE LET rest == BlockSums(bl, bl[b].next) IN
       IF bl[b].is_free
       THEN [rest EXCEPT !.free = @ + bl[b].size, !.freeBlocks = @ + 1]
       ELSE [rest EXCEPT !.allocated = @ + bl[b].size + memoryBlockAlignedSize]

FreeSucceeded(op) == op.op = "free" /\ op.ret = "SUCCESS"

\* C16: over every sequence of alloc and free on a fresh pool,
\* getTotalFreeMemory() is the sum of the sizes of the free blocks, and that
\* sum, the size plus header of every allocated block (a block whose is_free
\* is false) and one header per free block add up to poolSize; a successful
\* free leaves getTotalFreeMemory() strictly larger and a successful alloc
\* leaves it strictly smaller.
C16_CapacityAccounting ==
  [][\A before \in {getTotalFreeMemory(blk, head)} :
     \A after \in {getTotalFreeMemory(blk', head')} :
     \A sums \in {BlockSums(blk', head')} :
       /\ after = sums.free
       /\ after + sums.allocated + memoryBlockAlignedSize * sums.freeBlocks
            = poolSize'
       /\ FreeSucceeded(lastOp') => after > before
       /\ AllocSucceeded(lastOp') => after < before]_vars

\* A free succeeded while another block stays allocated between the freed
\* block and the free remainder of the arena.
C16_Witness ==
  /\ FreeSucceeded(lastOp)
  /\ live # {}
  /\ BlockSums(blk, head).freeBlocks = 2
  /\ BlockSums(blk, head).allocated > 0

\* C15: when three allocs of one requested size succeed on a fresh pool
\* (blocks A, B, C) and free(B) and free(C) follow, getMaxAllocatableSize()
\* is at least size(B) + size(C) + memoryBlockAlignedSize.
C15_CoalescingShowsInMaxAllocatable ==
  (Len(history) = 5 /\ \A i \in DOMAIN history : history[i].call.ret = "SUCCESS")
    => getMaxAllocatableSize(blk, head)
         >= history[2].size + history[3].size + memoryBlockAlignedSize

\* A thread is between acquiring and releasing the pool mutex.
Holding(t) == pc[t] \in {"body", "exit"}

\* C19: with several threads calling the six operations, at most one thread
\* is between acquiring and releasing pool_mutex; a thread runs the body of an
\* operation, the only place that reads or writes the block list, the handle
\* table and the free-handle stack, while it holds the mutex; and a thread
\* that returns, whatever the return code, leaves the mutex free, so that no
\* idle thread holds it.
C19_MutexGuardsEveryOperation ==
  [][/\ \A t, u \in Threads : (Holding(t)' /\ Holding(u)') => t = u
     /\ \A t \in Threads :
          /\ (pc[t] = "body" /\ pc'[t] = "exit") => pool_mutex = t
          /\ (pc[t] = "exit" /\ pc'[t] = "idle") => pool_mutex' = 0
          /\ pc'[t] = "idle" => pool_mutex' # t
     /\ poolVars' # poolVars =>
          \E t \in Threads : pool_mutex = t /\ pc[t] = "body"]_vars

\* Thread 2 is in the body of a call right after a call of another thread
\* left through an early error return.
C19_Witness ==
  /\ pc[2] = "body"
  /\ pool_mutex = 2
  /\ pc[1] = "idle"
  /\ lastOp.op = "free"
  /\ lastOp.ret = "INVALID_HANDLE"
  /\ live # {}

\* C20: a concurrent execution is the sequence of its operations in the
\* order in which they acquired the lock: an operation runs its body only
\* while every other thread is outside its own operation, so none sees
\* another one (defragment in particular) partly applied; and a successful
\* alloc returns a handle that no earlier successful alloc holds unfreed and
\* that resolves to a non-null pointer.
C20_OperationsSerialized ==
  [][\A t \in Threads :
       (pc[t] = "body" /\ pc'[t] = "exit") =>
         /\ \A u \in Threads \ {t} : pc[u] = "idle"
         /\ AllocSucceeded(lastOp') =>
              /\ lastOp'.out \notin live
              /\ getPointer(handleTable', lastOp'.out) # NULL]_vars

\* C28: when alloc(s) returned HANDLE_TABLE_FULL and the next call is a
\* successful free(h) of a live handle h, an alloc(s) made right after it
\* returns SUCCESS.
C28_RetryAfterFreeSucceeds ==
  [][(/\ lastOp.op = "alloc"
      /\ lastOp.ret = "HANDLE_TABLE_FULL"
      /\ FreeSucceeded(lastOp')
      /\ lastOp'.arg \in live)
     => \A s \in {lastOp.arg} : AllocReturn(s)' = "SUCCESS"]_vars

\* The blocks of the list that are not free.
NonFreeBlocks(bl, hd) ==
  {ListFrom(bl, hd)[i] : i \in {j \in DOMAIN ListFrom(bl, hd) :
                                  ~bl[ListFrom(bl, hd)[j]].is_free}}

\* The handles on the free-handle stack, as positions of the array in use.
StackSlots == 0..(freeHandleCount - 1)

\* C29: in every reachable state handleTable[h] is non-null iff h is not on
\* the free-handle stack; a non-null handleTable[h] points to a block of the
\* list that is non-free and carries handle h; every non-free block is the
\* target of exactly one slot; the stack holds no handle twice; and the
\* number of non-free blocks plus freeHandleCount is maxHandles.
C29_HandleTableInvariant ==
  crashed \/
  \A allocated \in {NonFreeBlocks(blk, head)} :
    /\ \A h \in Handles :
         handleTable[h] # NULL <=> ~\E i \in StackSlots : freeHandles[i] = h
    /\ \A h \in Handles :
         handleTable[h] # NULL =>
           /\ handleTable[h] \in allocated
           /\ blk[handleTable[h]].handle = h
    /\ \A b \in allocated :
         Cardinality({h \in Handles : handleTable[h] = b}) = 1
    /\ \A i, j \in StackSlots : freeHandles[i] = freeHandles[j] => i = j
    /\ Cardinality(allocated) + freeHandleCount = maxHandles

\* C30: in every reachable state the block list holds at most maxHandles
\* non-free blocks, so that the collecting loop of defragment stays below
\* index maxHandles of allocatedHandles, allocatedSizes and oldPointers.
C30_NonFreeBlocksFitScratchArrays ==
  crashed \/ Cardinality(NonFreeBlocks(blk, head)) <= maxHandles

\* The block offsets grow along next, so a walk of the list ends at null.
WalkEnds(bl, hd) ==
  \A i \in 1..(Len(ListFrom(bl, hd)) - 1) :
    ListFrom(bl, hd)[i] < ListFrom(bl, hd)[i + 1]

\* C21: the block list that the operations walk always ends at next == null,
\* and a thread that has acquired pool_mutex always gets to the end of its
\* operation and releases the mutex.
C21_OperationsFinishAndRelease ==
  /\ [](crashed \/ WalkEnds(blk, head))
  /\ \A t \in Threads : (pool_mutex = t) ~> (pool_mutex # t)

\* The stored elements of a ring buffer, oldest first.
Contents(rb) ==
  [i \in 1..rb.m_elementsWritten |->
     rb.m_itemArray[(rb.m_readIndex + i - 1) % rb.m_elementCount]]

WroteSingle(op) == op.op = "write"

WroteArray(op) == op.op \in {"writeArray", "writeArrayCounted"} /\ op.arg # <<>>

\* The last n elements of a sequence, all of it when it is shorter.
LastElements(seq, n) ==
  IF Len(seq) <= n THEN seq ELSE SubSeq(seq, Len(seq) - n + 1, Len(seq))

\* C22: in RINGBUFFER_NO_OVERWRITE mode the single-element write returns
\* false exactly when the buffer holds elementCount unread elements; a
\* rejected write changes neither the stored elements, nor the indices, nor
\* ringBufferElementsWritten(); an accepted write returns true and raises
\* ringBufferElementsWritten() by one.
C22_NoOverwriteWrite ==
  [][(WroteSingle(lastOp')
      /\ ringBuffer.m_overwriteSetting = "RINGBUFFER_NO_OVERWRITE")
     => /\ lastOp'.ret = FALSE
             <=> ringBuffer.m_elementsWritten = ringBuffer.m_elementCount
        /\ lastOp'.ret = FALSE => ringBuffer' = ringBuffer
        /\ lastOp'.ret = TRUE =>
             ringBuffer'.m_elementsWritten = ringBuffer.m_elementsWritten + 1]_vars

\* A write was rejected by a full buffer whose indices have wrapped around.
C22_Witness ==
  /\ WroteSingle(lastOp)
  /\ lastOp.ret = FALSE
  /\ ringBuffer.m_elementCount = MaxElementCount
  /\ ringBuffer.m_elementsWritten = ringBuffer.m_elementCount
  /\ ringBuffer.m_readIndex > 0

\* C23: read returns true with the oldest stored element and removes it, so
\* that elements come out in write order, and returns false with the element
\* count unchanged exactly on an empty buffer; a write to a buffer that is
\* not full appends its element; in RINGBUFFER_ALLOW_OVERWRITE mode a write
\* to a full buffer returns true, drops exactly the oldest element and leaves
\* the buffer full.  The array forms of write and read keep the same order,
\* and a change of the overwrite setting leaves the stored elements alone.
C23_ReadsInWriteOrder ==
  [][\A stored \in {Contents(ringBuffer)} :
     \A full \in {ringBuffer.m_elementsWritten = ringBuffer.m_elementCount} :
       /\ lastOp'.op = "read" =>
            /\ lastOp'.ret = FALSE <=> stored = <<>>
            /\ lastOp'.ret = FALSE => Contents(ringBuffer') = <<>>
            /\ lastOp'.ret = TRUE =>
                 /\ lastOp'.out = Head(stored)
                 /\ Contents(ringBuffer') = Tail(stored)
       /\ (WroteSingle(lastOp') /\ ~full) =>
            /\ lastOp'.ret = TRUE
            /\ Contents(ringBuffer') = Append(stored, lastOp'.arg)
       /\ (/\ WroteSingle(lastOp')
           /\ full
           /\ ringBuffer.m_overwriteSetting = "RINGBUFFER_ALLOW_OVERWRITE") =>
            /\ lastOp'.ret = TRUE
            /\ Contents(ringBuffer') = Append(Tail(stored), lastOp'.arg)
            /\ ringBuffer'.m_elementsWritten = ringBuffer'.m_elementCount
       /\ (/\ WroteArray(lastOp')
           /\ ringBuffer.m_overwriteSetting = "RINGBUFFER_NO_OVERWRITE") =>
            Contents(ringBuffer') =
              stored \o SubSeq(lastOp'.arg, 1,
                               ringBuffer'.m_elementsWritten - Len(stored))
       /\ (/\ WroteArray(lastOp')
           /\ ringBuffer.m_overwriteSetting = "RINGBUFFER_ALLOW_OVERWRITE") =>
            Contents(ringBuffer') =
              LastElements(stored \o lastOp'.arg, ringBuffer.m_elementCount)
       /\ lastOp'.op = "readArray" =>
            stored = lastOp'.out \o Contents(ringBuffer')
       /\ lastOp'.op = "setOverwriteBehavior" =>
            Contents(ringBuffer') = stored]_vars

\* A read returned the oldest element of a buffer that had been overwritten
\* while full, and a newer element is still stored.
C23_Witness ==
  /\ lastOp.op = "read"
  /\ lastOp.ret = TRUE
  /\ ringBuffer.m_overwriteSetting = "RINGBUFFER_ALLOW_OVERWRITE"
  /\ ringBuffer.m_elementCount = MaxElementCount
  /\ ringBuffer.m_elementsWritten = ringBuffer.m_elementCount - 1
  /\ ringBuffer.m_readIndex = 2
  /\ lastOp.out # Contents(ringBuffer)[1]

\* C24: in RINGBUFFER_NO_OVERWRITE mode write(T data[], const size_t
\* dataCount) returns the number of items the call stored, for every
\* dataCount >= 0 and every fill level, and stores at most dataCount items.
C24_ArrayWriteReturnsStoredCount ==
  [][(lastOp'.op = "writeArray"
      /\ ringBuffer.m_overwriteSetting = "RINGBUFFER_NO_OVERWRITE")
     => \A stored \in {ringBuffer'.m_elementsWritten
                         - ringBuffer.m_elementsWritten} :
          /\ lastOp'.out = stored
          /\ stored <= Len(lastOp'.arg)]_vars

\* The elements a fifoQueue holds, oldest first.
FifoContents(q) ==
  [i \in 1..q.m_currentSize |-> q.m_data[(q.m_head + i - 1) % QueueSize]]

\* C25: fifoQueue::push always returns true and appends its item, first
\* discarding the oldest element when the queue holds QueueSize elements;
\* pop returns false and changes nothing iff the queue is empty, and
\* otherwise returns true with the oldest element, which it removes; the
\* size never exceeds QueueSize.
C25_FifoKeepsMostRecent ==
  [][\A before \in {FifoContents(fifoQueue)} :
     \A after \in {FifoContents(fifoQueue')} :
       /\ queueBase_size(fifoQueue') <= QueueSize
       /\ lastOp'.op = "push" =>
            /\ lastOp'.ret = TRUE
            /\ after = Append(IF Len(before) = QueueSize
                              THEN Tail(before) ELSE before, lastOp'.arg)
       /\ lastOp'.op = "pop" =>
            /\ lastOp'.ret = FALSE <=> before = <<>>
            /\ lastOp'.ret = FALSE => fifoQueue' = fifoQueue
            /\ lastOp'.ret = TRUE =>
                 /\ lastOp'.out = Head(before)
                 /\ after = Tail(before)]_vars

\* A push onto a full queue whose oldest element differs from the second
\* oldest has just discarded the oldest one.
C25_Witness ==
  /\ lastOp.op = "push"
  /\ queueBase_size(fifoQueue) = QueueSize
  /\ fifoQueue.m_head # 0
  /\ FifoContents(fifoQueue)[1] # FifoContents(fifoQueue)[QueueSize]
  /\ FifoContents(fifoQueue)[QueueSize] = lastOp.arg

\* The elements a lifoQueue holds, oldest first: the m_currentSize slots
\* below m_tail.
LifoContents(q) ==
  [i \in 1..q.m_currentSize |->
     q.m_data[(q.m_tail + QueueSize - q.m_currentSize + i - 1) % QueueSize]]

\* C26: lifoQueue::push returns false iff the stack holds QueueSize elements,
\* and then changes nothing; otherwise it puts its item on top.  pop returns
\* false iff the stack is empty, and then changes nothing; otherwise it
\* returns and removes the most recently pushed element still on the stack.
C26_LifoReversesPushOrder ==
  [][\A before \in {LifoContents(lifoQueue)} :
     \A after \in {LifoContents(lifoQueue')} :
       /\ lastOp'.op = "push" =>
            /\ lastOp'.ret = FALSE <=> Len(before) = QueueSize
            /\ lastOp'.ret = FALSE => lifoQueue' = lifoQueue
            /\ lastOp'.ret = TRUE => after = Append(before, lastOp'.arg)
       /\ lastOp'.op = "pop" =>
            /\ lastOp'.ret = FALSE <=> before = <<>>
            /\ lastOp'.ret = FALSE => lifoQueue' = lifoQueue
            /\ lastOp'.ret = TRUE =>
                 /\ lastOp'.out = before[Len(before)]
                 /\ after = SubSeq(before, 1, Len(before) - 1)]_vars

\* A pop from a full stack has just returned an element that differs from
\* the one now on top.
C26_Witness ==
  /\ lastOp.op = "pop"
  /\ lastOp.ret = TRUE
  /\ queueBase_size(lifoQueue) = QueueSize - 1
  /\ lastOp.out # LifoContents(lifoQueue)[QueueSize - 1]

\* The tail's next pointer leads back to the head.
TailLeadsToHead(list) ==
  /\ list.m_tail # NULL
  /\ list.m_next[list.m_tail] = list.m_head

\* C27: on every list built with pushFront, pushBack, makeCircular and
\* breakCircularity, the empty one included, testCircularity returns, and
\* its answer is true exactly when the tail's next pointer leads back to the
\* head.
C27_TestCircularityAnswers ==
  lastOp.op = "testCircularity" =>
    /\ ~crashed
    /\ lastOp.ret = TailLeadsToHead(singlyLinkedList)

\* C31: in every state in which no handle is live the block list is one free
\* block of size poolSize - memoryBlockAlignedSize, so getTotalFreeMemory()
\* is what it is on a fresh pool.
C31_AllFreedRestoresFreshPool ==
  (~crashed /\ live = {}) =>
    /\ ListFrom(blk, head) = <<head>>
    /\ blk[head].is_free
    /\ blk[head].size = poolSize - memoryBlockAlignedSize
    /\ getTotalFreeMemory(blk, head) = poolSize - memoryBlockAlignedSize

\* No block of the list and its successor are both free.
NoAdjacentFree(bl, hd) ==
  \A b \in {ListFrom(bl, hd)[i] : i \in DOMAIN ListFrom(bl, hd)} :
    ~(/\ bl[b].is_free
      /\ bl[b].next # NULL
      /\ bl[bl[b].next].is_free)

OwnedSize(bl, ht, h) ==
  IF ht[h] \in DOMAIN bl THEN bl[ht[h]].size ELSE NULL

\* The handle a successful alloc returned or a successful free was given.
HandleOf(op) == IF op.op = "alloc" THEN op.out ELSE op.arg

ListBlocks(bl, hd) == {ListFrom(bl, hd)[i] : i \in DOMAIN ListFrom(bl, hd)}

\* C34: a successful alloc(s) claims the free block of lowest address whose
\* size is at least s rounded up to the alignment: the block the returned
\* handle refers to was free and that large before the call, no free block
\* of the list at a lower address was that large, and getPointer of the
\* handle is the block's start plus memoryBlockAlignedSize.
C34_AllocIsFirstFit ==
  [][AllocSucceeded(lastOp') =>
       \A block \in {handleTable'[lastOp'.out]} :
       \A rounded \in {AlignUp(lastOp'.arg)} :
         /\ block \in ListBlocks(blk, head)
         /\ blk[block].is_free
         /\ blk[block].size >= rounded
         /\ \A lower \in ListBlocks(blk, head) :
              lower < block => ~(blk[lower].is_free /\ blk[lower].size >= rounded)
         /\ ~blk'[block].is_free
         /\ getPointer(handleTable', lastOp'.out)
              = block + memoryBlockAlignedSize]_vars

\* alloc(17) has just passed over a free first block that is too small and
\* claimed a block behind it.
C34_Witness ==
  /\ AllocSucceeded(lastOp)
  /\ blk[head].is_free
  /\ blk[head].size < AlignUp(lastOp.arg)
  /\ handleTable[lastOp.out] > head

\* C35: a successful alloc that claims a free block of size S for the rounded
\* request r splits it exactly when S >= r + H + M, with H the header size
\* and M = H + alignment: the claimed block then has size r and is followed
\* in the list by a new free block of size S - r - H, which is at least M.
\* Otherwise the block keeps size S, no block is created, and S exceeds r by
\* less than H + M.
C35_SplitRule ==
  [][AllocSucceeded(lastOp') =>
       \A block \in {handleTable'[lastOp'.out]} :
       \A r \in {AlignUp(lastOp'.arg)} :
       \A S \in {blk[block].size} :
       \A M \in {memoryBlockAlignedSize + alignment} :
         IF S >= r + memoryBlockAlignedSize + M
         THEN \A new_block \in {block + r + memoryBlockAlignedSize} :
                /\ blk'[block].size = r
                /\ blk'[block].next = new_block
                /\ DOMAIN blk' = DOMAIN blk \cup {new_block}
                /\ new_block \notin DOMAIN blk
                /\ blk'[new_block].is_free
                /\ blk'[new_block].size = S - r - memoryBlockAlignedSize
                /\ blk'[new_block].size >= M
                /\ blk'[new_block].prev = block
                /\ blk'[new_block].next = blk[block].next
         ELSE /\ blk'[block].size = S
              /\ blk'[block].next = blk[block].next
              /\ DOMAIN blk' = DOMAIN blk
              /\ S - r < memoryBlockAlignedSize + M]_vars

\* An alloc has just split a block that was exactly large enough to split:
\* the new free block behind the claimed one has the minimal size.
C35_Witness ==
  /\ AllocSucceeded(lastOp)
  /\ \E block \in {handleTable[lastOp.out]} :
       /\ blk[block].size = AlignUp(lastOp.arg)
       /\ blk[block].next # NULL
       /\ blk[blk[block].next].is_free
       /\ blk[blk[block].next].size = memoryBlockAlignedSize + alignment

\* C36: when alloc returned SUCCESS with handle h and free(h) is the next
\* call, that call succeeds and leaves the block list, the handle table and
\* the free-handle stack as they were before the alloc, and with them
\* getMaxAllocatableSize() and getTotalFreeMemory().
C36_FreeUndoesAlloc ==
  /\ (~crashed /\ Len(history) = 1) =>
       \A r \in {FreeResult(history[1].call.out)} :
         /\ r.ret = "SUCCESS"
         /\ ~r.overflow
  /\ Len(history) = 2 =>
       /\ history[2].call.ret = "SUCCESS"
       /\ Snapshot = history[1].before
       /\ getMaxAllocatableSize(blk, head)
            = getMaxAllocatableSize(history[1].before.blk,
                                    history[1].before.head)
       /\ getTotalFreeMemory(blk, head)
            = getTotalFreeMemory(history[1].before.blk, history[1].before.head)

\* free has just undone an alloc that had split a block.
C36_Witness ==
  /\ Len(history) = 2
  /\ history[2].call.ret = "SUCCESS"
  /\ Cardinality(DOMAIN history[2].before.blk)
       > Cardinality(DOMAIN history[1].before.blk)
  /\ Snapshot = history[1].before

Visible(hd, bl, ht, mem) ==
  [blocks |-> [b \in ListBlocks(bl, hd) |-> <<bl[b].size, bl[b].is_free>>],
   table |-> ht,
   payload |-> [b \in {x \in ListBlocks(bl, hd) : ~bl[x].is_free} |->
                  ReadPayload(mem, b + memoryBlockAlignedSize, bl[b].size)]]

\* C39: calling defragment() twice in succession leaves the pool in the same
\* state as calling it once: whatever the second call does, it changes no
\* block position, block size, free flag, handle-table entry or payload byte.
C39_DefragmentIsIdempotent ==
  (Defragmented(lastOp) /\ ~crashed) =>
    \A stride \in DefragStrides :
      /\ stride # 0
      /\ \E r \in {DefragResult(stride)} :
           /\ r.ok
           /\ Visible(r.hd, r.bl, r.ht, r.mem)
                = Visible(head, blk, handleTable, pool)

\* The handle value the ledger predicts for the next successful alloc: the
\* value freed last among those not reissued, else the lowest value that was
\* never issued.
ExpectedHandle(ledger) ==
  IF ledger.pending # <<>> THEN ledger.pending[Len(ledger.pending)]
  ELSE CHOOSE h \in 0..maxHandles :
         /\ h \notin ledger.issued
         /\ \A g \in 0..(h - 1) : g \in ledger.issued

\* C40: on a fresh pool successive successful allocs return the handles
\* 0, 1, 2, ... in that order, and in any state a successful alloc returns the
\* most recently freed handle value that has not been reissued, falling back
\* to the lowest never-issued value when no freed handle is pending.
C40_HandlesAreReusedLastInFirstOut ==
  [][AllocSucceeded(lastOp') =>
       /\ ~Ledger.freed => lastOp'.out = Cardinality(Ledger.issued)
       /\ lastOp'.out = ExpectedHandle(Ledger)]_vars

====
